---- MODULE Spec2Model ----
(***************************************************************************)
(* State-machine model of the HEIC viewer's view state: HeicViewer         *)
(* (main_window.py), ImageView (image_view.py) and ClippedPixmapItem       *)
(* (graphics_items.py).  Every handler is an operator from the window's    *)
(* state (a record of its fields) to its state after the handler; the      *)
(* actions apply the handlers to the variables.                            *)
(*                                                                         *)
(* Floats are exact rationals <<n, d>>.  A QTransform is its linear part   *)
(* <<m11, m12, m21, m22>> (Qt maps a point p to p * M).  A QRectF is       *)
(* [x, y, w, h].  An optional value is <<>> (None) or <<v>>.               *)
(***************************************************************************)
EXTENDS Integers, Sequences, FiniteSets, TLC

\* ------------------------------------------------------------------ bounds
MaxUndo == 2
MaxWheel == 1
MaxPending == 1
MaxFiles == 1
MaxFolder == 3

\* -------------------------------------------------------------- optionals
None == << >>
Some(v) == <<v>>
IsNone(o) == Len(o) = 0
Val(o) == o[1]

\* -------------------------------------------------------------- rationals
Abs(n) == IF n < 0 THEN -n ELSE n

RECURSIVE GCD(_, _)
GCD(a, b) == IF b = 0 THEN a ELSE GCD(b, a % b)

Rat(n, d) ==
    LET sn == IF d < 0 THEN -n ELSE n
        sd == Abs(d)
        g == GCD(Abs(sn), sd)
    IN  <<sn \div g, sd \div g>>
RInt(n) == <<n, 1>>
RZero == RInt(0)
ROne == RInt(1)
RMul(a, b) == Rat(a[1] * b[1], a[2] * b[2])
RDiv(a, b) == Rat(a[1] * b[2], a[2] * b[1])
RAdd(a, b) == Rat(a[1] * b[2] + b[1] * a[2], a[2] * b[2])
RNeg(a) == <<-a[1], a[2]>>
RAbs(a) == <<Abs(a[1]), a[2]>>
RLess(a, b) == a[1] * b[2] < b[1] * a[2]
RLeq(a, b) == a[1] * b[2] <= b[1] * a[2]
RMin(a, b) == IF RLess(b, a) THEN b ELSE a
RMax(a, b) == IF RLess(a, b) THEN b ELSE a
\* int(x) for x >= 0
RTrunc(a) == a[1] \div a[2]
\* round(x) of Python 3 for x >= 0: to nearest, halves to the even neighbour
RRound(a) ==
    LET q == a[1] \div a[2]
        r2 == 2 * (a[1] % a[2])
    IN  IF r2 < a[2] THEN q
        ELSE IF r2 > a[2] THEN q + 1
        ELSE IF q % 2 = 0 THEN q ELSE q + 1

\* ------------------------------------------------------------------ QRectF
Rect(x, y, w, h) == [x |-> x, y |-> y, w |-> w, h |-> h]
NullRect == Rect(0, 0, 0, 0)
RectLeft(r) == r.x
RectTop(r) == r.y
RectRight(r) == r.x + r.w
RectBottom(r) == r.y + r.h
RectIsNull(r) == r.w = 0 /\ r.h = 0
RectIsEmpty(r) == r.w <= 0 \/ r.h <= 0
RectIsValid(r) == r.w > 0 /\ r.h > 0
IMax(a, b) == IF a < b THEN b ELSE a
IMin(a, b) == IF a < b THEN a ELSE b

\* QRectF.intersected of two normalized rectangles
Intersected(a, b) ==
    IF a.w = 0 \/ b.w = 0 THEN NullRect
    ELSE IF RectLeft(a) >= RectRight(b) \/ RectLeft(b) >= RectRight(a) THEN NullRect
    ELSE IF a.h = 0 \/ b.h = 0 THEN NullRect
    ELSE IF RectTop(a) >= RectBottom(b) \/ RectTop(b) >= RectBottom(a) THEN NullRect
    ELSE LET l == IMax(RectLeft(a), RectLeft(b))
             t == IMax(RectTop(a), RectTop(b))
         IN  Rect(l, t, IMin(RectRight(a), RectRight(b)) - l,
                        IMin(RectBottom(a), RectBottom(b)) - t)

\* QRectF(p, q).normalized()
NormalizedRect(p, q) ==
    Rect(IMin(p[1], q[1]), IMin(p[2], q[2]), Abs(q[1] - p[1]), Abs(q[2] - p[2]))

\* truth value of an optional QRectF in Python: None and a null rectangle are false
Truthy(o) == ~IsNone(o) /\ ~RectIsNull(Val(o))

\* -------------------------------------------------------------- QTransform
Identity == <<ROne, RZero, RZero, ROne>>

\* QGraphicsView.scale(sx, sy): M := S * M
Scale(t, sx, sy) == <<RMul(sx, t[1]), RMul(sx, t[2]), RMul(sy, t[3]), RMul(sy, t[4])>>

Sin(deg) == CASE deg = 0 -> 0 [] deg = 90 -> 1 [] deg = 180 -> 0 [] deg = 270 -> -1
Cos(deg) == CASE deg = 0 -> 1 [] deg = 90 -> 0 [] deg = 180 -> -1 [] deg = 270 -> 0

\* QGraphicsView.rotate(deg): M := R * M, R = [[cos, sin], [-sin, cos]]
Rotate(t, deg) ==
    LET s == RInt(Sin(deg))
        c == RInt(Cos(deg))
    IN  << RAdd(RMul(c, t[1]), RMul(s, t[3])),
           RAdd(RMul(c, t[2]), RMul(s, t[4])),
           RAdd(RMul(RNeg(s), t[1]), RMul(c, t[3])),
           RAdd(RMul(RNeg(s), t[2]), RMul(c, t[4])) >>

\* size of QTransform.mapRect of a w x h rectangle
MapW(t, w, h) == RAdd(RMul(RAbs(t[1]), w), RMul(RAbs(t[3]), h))
MapH(t, w, h) == RAdd(RMul(RAbs(t[2]), w), RMul(RAbs(t[4]), h))

\* math.hypot(m11, m12); the transforms here always have m11 = 0 or m12 = 0
Hypot(a, b) == CASE b[1] = 0 -> RAbs(a) [] a[1] = 0 -> RAbs(b)

\* QGraphicsView.fitInView(rect, KeepAspectRatio) in a viewport vp = <<w, h>>
FitInView(t, rect, vp) ==
    IF RectIsNull(rect) THEN t
    ELSE LET uw == MapW(t, ROne, ROne)
             uh == MapH(t, ROne, ROne)
         IN  IF uw[1] <= 0 \/ uh[1] <= 0 THEN t
             ELSE LET t1 == Scale(t, RDiv(ROne, uw), RDiv(ROne, uh))
                      vw == vp[1] - 4
                      vh == vp[2] - 4
                      sw == MapW(t1, RInt(rect.w), RInt(rect.h))
                      sh == MapH(t1, RInt(rect.w), RInt(rect.h))
                  IN  IF vw <= 0 \/ vh <= 0 THEN t1
                      ELSE IF sw[1] <= 0 \/ sh[1] <= 0 THEN t1
                      ELSE LET r == RMin(RDiv(RInt(vw), sw), RDiv(RInt(vh), sh))
                           IN  Scale(t1, r, r)

\* ------------------------------------------- picture content (Pillow side)
Corners == {<<x, y>> : x \in {-1, 1}, y \in {-1, 1}}
\* a picture, by the corner of the original found at each of its corners
Original == [q \in Corners |-> q]
\* Image.rotate(angle, expand=True): counter-clockwise by angle degrees
Ccw90(img) == [q \in Corners |-> img[<<-q[2], q[1]>>]]
PilRotate(img, angle) ==
    LET k == (angle % 360) \div 90
    IN  CASE k = 0 -> img
          [] k = 1 -> Ccw90(img)
          [] k = 2 -> Ccw90(Ccw90(img))
          [] k = 3 -> Ccw90(Ccw90(Ccw90(img)))
\* Image.transpose(FLIP_LEFT_RIGHT), Image.transpose(FLIP_TOP_BOTTOM)
FlipLeftRight(img) == [q \in Corners |-> img[<<-q[1], q[2]>>]]
FlipTopBottom(img) == [q \in Corners |-> img[<<q[1], -q[2]>>]]

\* ------------------------------------------------ picture on screen (Qt side)
Sign(r) == IF r[1] > 0 THEN 1 ELSE IF r[1] < 0 THEN -1 ELSE 0
\* direction in which the view transform sends the scene point p (p * M)
MapPoint(t, p) ==
    << Sign(RAdd(RMul(RInt(p[1]), t[1]), RMul(RInt(p[2]), t[3]))),
       Sign(RAdd(RMul(RInt(p[1]), t[2]), RMul(RInt(p[2]), t[4]))) >>
\* the signs of the transform's entries
Orientation(t) == <<Sign(t[1]), Sign(t[2]), Sign(t[3]), Sign(t[4])>>
\* the picture the view shows: the corner of the original at each screen corner
Displayed(t) == [q \in Corners |-> CHOOSE p \in Corners : MapPoint(t, p) = q]

\* ------------------------------------------------------------------- state
VARIABLES
    files, current_idx,
    current_zoom, user_zoomed, view_rotation, is_zoom_actual_size, flip_h, flip_v,
    crop_mode, crop_rect, crop_item, crop_overlay_items,
    undo_stack, redo_stack,
    pixmap_item, clip_rect, scene_rect, transform, viewport,
    save_as_enabled, zoom_slider, fullscreen, page, pending_fit,
    output,
    lastOp, lastArg, prevOp, pre, preIdx, atCommit, trail, atUndo, wheel_count

progVars == << files, current_idx,
    current_zoom, user_zoomed, view_rotation, is_zoom_actual_size, flip_h, flip_v,
    crop_mode, crop_rect, crop_item, crop_overlay_items,
    undo_stack, redo_stack,
    pixmap_item, clip_rect, scene_rect, transform, viewport,
    save_as_enabled, zoom_slider, fullscreen, page, pending_fit >>
histVars == << output, lastOp, lastArg, prevOp, pre, preIdx, atCommit, trail, atUndo,
              wheel_count >>
vars == << progVars, histVars >>

\* the window's fields as one record
Self ==
    [ files |-> files, current_idx |-> current_idx,
      current_zoom |-> current_zoom, user_zoomed |-> user_zoomed,
      view_rotation |-> view_rotation, is_zoom_actual_size |-> is_zoom_actual_size,
      flip_h |-> flip_h, flip_v |-> flip_v,
      crop_mode |-> crop_mode, crop_rect |-> crop_rect, crop_item |-> crop_item,
      crop_overlay_items |-> crop_overlay_items,
      undo_stack |-> undo_stack, redo_stack |-> redo_stack,
      pixmap_item |-> pixmap_item, clip_rect |-> clip_rect, scene_rect |-> scene_rect,
      transform |-> transform, viewport |-> viewport,
      save_as_enabled |-> save_as_enabled, zoom_slider |-> zoom_slider,
      fullscreen |-> fullscreen, page |-> page, pending_fit |-> pending_fit ]

\* the fields take the values of the record s
Becomes(s) ==
    /\ files' = s.files /\ current_idx' = s.current_idx
    /\ current_zoom' = s.current_zoom /\ user_zoomed' = s.user_zoomed
    /\ view_rotation' = s.view_rotation
    /\ is_zoom_actual_size' = s.is_zoom_actual_size
    /\ flip_h' = s.flip_h /\ flip_v' = s.flip_v
    /\ crop_mode' = s.crop_mode /\ crop_rect' = s.crop_rect
    /\ crop_item' = s.crop_item /\ crop_overlay_items' = s.crop_overlay_items
    /\ undo_stack' = s.undo_stack /\ redo_stack' = s.redo_stack
    /\ pixmap_item' = s.pixmap_item /\ clip_rect' = s.clip_rect
    /\ scene_rect' = s.scene_rect /\ transform' = s.transform
    /\ viewport' = s.viewport
    /\ save_as_enabled' = s.save_as_enabled /\ zoom_slider' = s.zoom_slider
    /\ fullscreen' = s.fullscreen /\ page' = s.page
    /\ pending_fit' = s.pending_fit

\* ---------------------------------------------------------- program values
SliderMin == 10
SliderMax == 400
SliderInit == 100
ZoomMin == Rat(1, 10)
ZoomMax == RInt(4)
ZoomEps == Rat(1, 1000000)
WheelIn == Rat(11, 10)
WheelOut == Rat(10, 11)
\* QSlider.setValue keeps the value in the slider's range
SliderClamp(v) == IMax(SliderMin, IMin(SliderMax, v))

\* environment: window sizes, directories, pictures, mouse drags
Viewports == {<<12, 8>>, <<8, 12>>}
InitViewport == <<12, 8>>
Directory(n) == [k \in 1..n |-> k - 1]
PixmapRect(f) == IF f % 2 = 0 THEN Rect(0, 0, 2, 1) ELSE Rect(0, 0, 1, 2)
\* mouse positions in scene coordinates: with the 2 x 1 picture a drag between them
\* selects its left half, its right half, all of it, or a rectangle beside it
DragPoints == {<<-1, -1>>, <<1, 2>>, <<3, -1>>, <<4, 2>>}
SliderValues == {200}

\* ------------------------------------------------------- ClippedPixmapItem
HasPixmapItem(s) == ~IsNone(s.pixmap_item)
\* ClippedPixmapItem.boundingRect and, the item lying untransformed at the
\* scene's origin, sceneBoundingRect
BoundingRect(s) == IF Truthy(s.clip_rect) THEN Val(s.clip_rect) ELSE Val(s.pixmap_item)
SetClipRect(s, rect) == [s EXCEPT !.clip_rect = Some(rect)]
ClearClipRect(s) == [s EXCEPT !.clip_rect = None]

\* ------------------------------------------------------------ zoom handlers
TransformScale(t) == Hypot(t[1], t[2])

SyncZoomUiFromView(s) ==
    LET z == TransformScale(s.transform)
    IN  [s EXCEPT !.current_zoom = z,
                  !.zoom_slider = SliderClamp(RRound(RMul(z, RInt(100))))]

PostFitImage(s) == [s EXCEPT !.pending_fit = @ + 1]

ApplyBaseTransform(s) ==
    LET sx == IF s.flip_h THEN RInt(-1) ELSE ROne
        sy == IF s.flip_v THEN RInt(-1) ELSE ROne
    IN  [s EXCEPT !.transform = Rotate(Scale(Identity, sx, sy), s.view_rotation)]

FitImage(s) ==
    IF HasPixmapItem(s) /\ ~s.user_zoomed
    THEN SyncZoomUiFromView(
             [s EXCEPT !.transform = FitInView(s.transform, s.scene_rect, s.viewport)])
    ELSE SyncZoomUiFromView(s)

SetZoom(s, zoom) ==
    LET z == RMax(ZoomMin, RMin(zoom, ZoomMax))
        cur == RMax(s.current_zoom, ZoomEps)
        factor == RDiv(z, cur)
    IN  SyncZoomUiFromView(
            [s EXCEPT !.transform = Scale(s.transform, factor, factor),
                      !.user_zoomed = TRUE,
                      !.is_zoom_actual_size = FALSE])

OnWheelZoom(s, factor) ==
    LET new_zoom == RMax(ZoomMin, RMin(RMul(s.current_zoom, factor), ZoomMax))
    IN  [SetZoom(s, new_zoom) EXCEPT
            !.zoom_slider = SliderClamp(RTrunc(RMul(new_zoom, RInt(100))))]

OnSliderZoom(s, value) ==
    SetZoom([s EXCEPT !.zoom_slider = value], Rat(value, 100))

ResetZoom(s) ==
    PostFitImage([s EXCEPT !.user_zoomed = FALSE, !.is_zoom_actual_size = FALSE])

RotateAndFlip(s, delta) ==
    IF ~HasPixmapItem(s) THEN s
    ELSE LET s1 == [s EXCEPT !.view_rotation = (s.view_rotation + delta) % 360]
             keep_zoom == s1.user_zoomed \/ s1.is_zoom_actual_size
             s2 == ApplyBaseTransform(s1)
             s3 == IF keep_zoom
                   THEN SyncZoomUiFromView(
                            [s2 EXCEPT !.transform =
                                Scale(s2.transform, s2.current_zoom, s2.current_zoom)])
                   ELSE PostFitImage([s2 EXCEPT !.user_zoomed = FALSE])
         IN  [s3 EXCEPT !.save_as_enabled = TRUE]

FlipHorizontal(s) ==
    IF ~HasPixmapItem(s) THEN s
    ELSE RotateAndFlip([s EXCEPT !.flip_h = ~s.flip_h], 0)

FlipVertical(s) ==
    IF ~HasPixmapItem(s) THEN s
    ELSE RotateAndFlip([s EXCEPT !.flip_v = ~s.flip_v], 0)

ZoomActualSize(s) ==
    IF ~HasPixmapItem(s) THEN s
    ELSE IF s.is_zoom_actual_size
    THEN ResetZoom([s EXCEPT !.is_zoom_actual_size = FALSE])
    ELSE LET s1 == [s EXCEPT !.is_zoom_actual_size = TRUE,
                             !.user_zoomed = TRUE,
                             !.current_zoom = ROne]
             s2 == ApplyBaseTransform(s1)
         IN  SyncZoomUiFromView(
                 [s2 EXCEPT !.transform = Scale(s2.transform, ROne, ROne)])

\* ------------------------------------------------------------ crop handlers
ExitCropMode(s) == [s EXCEPT !.crop_mode = FALSE]

EnterCropMode(s) == [s EXCEPT !.crop_mode = TRUE]

ClearCropOverlay(s) == [s EXCEPT !.crop_overlay_items = << >>]

ClearCropPreview(s) == ClearCropOverlay([s EXCEPT !.crop_item = None])

UpdateCropOverlay(s, rect) ==
    IF ~HasPixmapItem(s) THEN ClearCropOverlay(s)
    ELSE LET img == BoundingRect(s)
             top == Rect(RectLeft(img), RectTop(img), img.w, RectTop(rect) - RectTop(img))
             bottom == Rect(RectLeft(img), RectBottom(rect), img.w,
                            RectBottom(img) - RectBottom(rect))
             left == Rect(RectLeft(img), RectTop(rect),
                          RectLeft(rect) - RectLeft(img), rect.h)
             right == Rect(RectRight(rect), RectTop(rect),
                           RectRight(img) - RectRight(rect), rect.h)
         IN  [s EXCEPT !.crop_overlay_items =
                 SelectSeq(<<top, bottom, left, right>>,
                           LAMBDA r : RectIsValid(r) /\ ~RectIsEmpty(r))]

\* ImageView.mousePressEvent at p, mouseMoveEvent to q, mouseReleaseEvent
MouseDrag(s, p, q) ==
    IF ~s.crop_mode THEN s
    ELSE LET rect == NormalizedRect(p, q)
         IN  UpdateCropOverlay([s EXCEPT !.crop_item = Some(rect)], rect)

\* the answer of the "Discard Crop?" dialog, asked only for an unfinished crop
ConfirmDiscardCrop(s, discard) == IF IsNone(s.crop_item) THEN TRUE ELSE discard

CancelCrop(s, discard) ==
    IF ~ConfirmDiscardCrop(s, discard) THEN s
    ELSE ExitCropMode(ClearCropPreview(s))

CaptureViewState(s) ==
    [ zoom |-> s.current_zoom, rotation |-> s.view_rotation,
      transform |-> s.transform, scene_rect |-> s.scene_rect ]

\* the crop rectangle commit_crop settles on for the selection sel
FinalCrop(s, sel) ==
    LET final_crop == Intersected(sel, BoundingRect(s))
    IN  IF RectIsEmpty(final_crop) THEN sel ELSE final_crop

\* commit_crop without redo_stack.clear()
CommitCropKeepsRedo(s) ==
    IF IsNone(s.crop_item) THEN ExitCropMode(s)
    ELSE LET s1 == [s EXCEPT !.undo_stack = Append(@, CaptureViewState(s))]
             final_crop == FinalCrop(s1, Val(s1.crop_item))
             s2 == ClearCropPreview([s1 EXCEPT !.crop_rect = Some(final_crop)])
             s3 == [SetClipRect(s2, final_crop) EXCEPT !.scene_rect = final_crop]
             s4 == SyncZoomUiFromView(
                       [s3 EXCEPT !.transform =
                           FitInView(s3.transform, final_crop, s3.viewport)])
         IN  ExitCropMode([s4 EXCEPT !.save_as_enabled = TRUE])

\* commit_crop enabling Save As before it looks for a selection
CommitCropEnablesSaveAs(s) ==
    IF IsNone(s.crop_item) THEN ExitCropMode([s EXCEPT !.save_as_enabled = TRUE])
    ELSE LET s1 == [s EXCEPT !.undo_stack = Append(@, CaptureViewState(s)),
                             !.redo_stack = << >>]
             final_crop == FinalCrop(s1, Val(s1.crop_item))
             s2 == ClearCropPreview([s1 EXCEPT !.crop_rect = Some(final_crop)])
             s3 == [SetClipRect(s2, final_crop) EXCEPT !.scene_rect = final_crop]
             s4 == SyncZoomUiFromView(
                       [s3 EXCEPT !.transform =
                           FitInView(s3.transform, final_crop, s3.viewport)])
         IN  ExitCropMode([s4 EXCEPT !.save_as_enabled = TRUE])

CommitCrop(s) ==
    IF IsNone(s.crop_item) THEN ExitCropMode(s)
    ELSE LET s1 == [s EXCEPT !.undo_stack = Append(@, CaptureViewState(s)),
                             !.redo_stack = << >>]
             final_crop == FinalCrop(s1, Val(s1.crop_item))
             s2 == ClearCropPreview([s1 EXCEPT !.crop_rect = Some(final_crop)])
             s3 == [SetClipRect(s2, final_crop) EXCEPT !.scene_rect = final_crop]
             s4 == SyncZoomUiFromView(
                       [s3 EXCEPT !.transform =
                           FitInView(s3.transform, final_crop, s3.viewport)])
         IN  ExitCropMode([s4 EXCEPT !.save_as_enabled = TRUE])

OnCropEnter(s) == IF s.crop_mode THEN CommitCrop(s) ELSE s

\* ---------------------------------------------------------------- undo, redo
\* _restore_view_state without its assignment to view_rotation
RestoreViewStateKeepsRotation(s, state) ==
    LET s1 == [s EXCEPT !.transform = state.transform,
                        !.scene_rect = state.scene_rect,
                        !.current_zoom = state.zoom]
        s2 == ClearClipRect(s1)
        full_rect == BoundingRect(s2)
        s3 == IF state.scene_rect # full_rect
              THEN [SetClipRect(s2, state.scene_rect) EXCEPT
                        !.crop_rect = Some(state.scene_rect)]
              ELSE [s2 EXCEPT !.crop_rect = None]
    IN  [s3 EXCEPT !.zoom_slider = SliderClamp(RTrunc(RMul(s3.current_zoom, RInt(100)))),
                   !.user_zoomed = TRUE,
                   !.save_as_enabled = TRUE]

RestoreViewState(s, state) ==
    LET s1 == [s EXCEPT !.transform = state.transform,
                        !.scene_rect = state.scene_rect,
                        !.current_zoom = state.zoom,
                        !.view_rotation = state.rotation]
        s2 == ClearClipRect(s1)
        full_rect == BoundingRect(s2)
        s3 == IF state.scene_rect # full_rect
              THEN [SetClipRect(s2, state.scene_rect) EXCEPT
                        !.crop_rect = Some(state.scene_rect)]
              ELSE [s2 EXCEPT !.crop_rect = None]
    IN  [s3 EXCEPT !.zoom_slider = SliderClamp(RTrunc(RMul(s3.current_zoom, RInt(100)))),
                   !.user_zoomed = TRUE,
                   !.save_as_enabled = TRUE]

\* undo without saving the current state for redo
UndoDropsCurrent(s) ==
    IF s.undo_stack = << >> THEN s
    ELSE LET state == s.undo_stack[Len(s.undo_stack)]
             s2 == [s EXCEPT !.undo_stack = SubSeq(@, 1, Len(@) - 1)]
         IN  RestoreViewState(s2, state)

Undo(s) ==
    IF s.undo_stack = << >> THEN s
    ELSE LET s1 == [s EXCEPT !.redo_stack = Append(@, CaptureViewState(s))]
             state == s1.undo_stack[Len(s1.undo_stack)]
             s2 == [s1 EXCEPT !.undo_stack = SubSeq(@, 1, Len(@) - 1)]
         IN  RestoreViewState(s2, state)

Redo(s) ==
    IF s.redo_stack = << >> THEN s
    ELSE LET s1 == [s EXCEPT !.undo_stack = Append(@, CaptureViewState(s))]
             state == s1.redo_stack[Len(s1.redo_stack)]
             s2 == [s1 EXCEPT !.redo_stack = SubSeq(@, 1, Len(@) - 1)]
         IN  RestoreViewState(s2, state)

\* ------------------------------------------------------ convert and save as
HasCurrentFile(s) == ~IsNone(s.files) /\ ~IsNone(s.current_idx)
CurrentPath(s) == Val(s.files)[Val(s.current_idx) + 1]

\* outcome: "cancel" (no file chosen), "fail" (the library raises), "ok".
\* ConvertedFile and SavedFile are the file the handler writes, if any.
ConvertedFile(s, outcome) ==
    IF ~HasCurrentFile(s) \/ outcome # "ok" THEN None
    ELSE Some([ source |-> CurrentPath(s), box |-> None, picture |-> Original ])

\* convert_image ending as save_as_view does, with Save As disabled
ConvertImageDisablesSaveAs(s, outcome) ==
    IF ~HasCurrentFile(s) \/ outcome # "ok" THEN s
    ELSE [s EXCEPT !.save_as_enabled = FALSE]

\* The handler assigns no field. Its dialogs run the event loop: a deferred
\* fit that fires there is a step of its own, taken before this one.
ConvertImage(s, outcome) == s

ApplyViewRotation(s, img) ==
    IF s.view_rotation = 0 THEN img ELSE PilRotate(img, -s.view_rotation)

\* the orientation save_as_view gives the picture
SavedPicture(s) ==
    LET img1 == ApplyViewRotation(s, Original)
        img2 == IF s.flip_h THEN FlipLeftRight(img1) ELSE img1
    IN  IF s.flip_v THEN FlipTopBottom(img2) ELSE img2

SavedFile(s, outcome) ==
    IF ~HasCurrentFile(s) \/ outcome # "ok" THEN None
    ELSE LET box == IF Truthy(s.crop_rect)
                    THEN LET r == Val(s.crop_rect)
                         IN  Some(<<RectLeft(r), RectTop(r), RectRight(r), RectBottom(r)>>)
                    ELSE None
         IN  Some([ source |-> CurrentPath(s), box |-> box, picture |-> SavedPicture(s) ])

SaveAsView(s, outcome) ==
    IF ~HasCurrentFile(s) \/ outcome # "ok" THEN s
    ELSE [s EXCEPT !.save_as_enabled = FALSE]

\* ----------------------------------------------------------- files, browsing
\* reset_view_state without its assignment to crop_rect
ResetViewStateKeepsCrop(s) ==
    LET s1 == [s EXCEPT !.user_zoomed = FALSE, !.view_rotation = 0,
                        !.current_zoom = ROne,
                        !.is_zoom_actual_size = FALSE,
                        !.flip_h = FALSE, !.flip_v = FALSE,
                        !.save_as_enabled = FALSE, !.transform = Identity]
    IN  IF HasPixmapItem(s1) THEN ClearClipRect(s1) ELSE s1

\* reset_view_state without clearClipRect()
ResetViewStateKeepsClip(s) ==
    [s EXCEPT !.user_zoomed = FALSE, !.view_rotation = 0,
              !.current_zoom = ROne, !.crop_rect = None,
              !.is_zoom_actual_size = FALSE,
              !.flip_h = FALSE, !.flip_v = FALSE,
              !.save_as_enabled = FALSE, !.transform = Identity]

ResetViewState(s) ==
    LET s1 == [s EXCEPT !.user_zoomed = FALSE, !.view_rotation = 0,
                        !.current_zoom = ROne, !.crop_rect = None,
                        !.is_zoom_actual_size = FALSE,
                        !.flip_h = FALSE, !.flip_v = FALSE,
                        !.save_as_enabled = FALSE, !.transform = Identity]
    IN  IF HasPixmapItem(s1) THEN ClearClipRect(s1) ELSE s1

\* handle_file for the file at index idx of the directory listing; outcome:
\* "missing" (no such file), "not_image" (not among the directory's pictures),
\* "undecodable" (the library raises), "ok"
HandleFile(s, listing, idx, from_navigation, outcome) ==
    IF outcome = "missing" THEN s
    ELSE IF ~from_navigation /\ outcome = "not_image" THEN s
    ELSE LET s1 == IF from_navigation THEN s
                   ELSE [s EXCEPT !.files = Some(listing), !.current_idx = Some(idx)]
             s2 == ResetViewState(s1)
             full == PixmapRect(listing[idx + 1])
         IN  IF outcome = "undecodable" THEN s2
             ELSE PostFitImage(
                      [s2 EXCEPT !.pixmap_item = Some(full), !.clip_rect = None,
                                 !.scene_rect = full, !.page = 1])

\* next_image going round to the first picture after the last
NextImageWraps(s, outcome) ==
    IF IsNone(s.files) \/ Val(s.files) = << >> \/ s.crop_mode THEN s
    ELSE LET idx == (Val(s.current_idx) + 1) % Len(Val(s.files))
         IN  HandleFile([s EXCEPT !.current_idx = Some(idx)],
                        Val(s.files), idx, TRUE, outcome)

NextImage(s, outcome) ==
    IF IsNone(s.files) \/ Val(s.files) = << >> \/ s.crop_mode THEN s
    ELSE LET idx == IMin(Val(s.current_idx) + 1, Len(Val(s.files)) - 1)
         IN  HandleFile([s EXCEPT !.current_idx = Some(idx)],
                        Val(s.files), idx, TRUE, outcome)

PrevImage(s, outcome) ==
    IF IsNone(s.files) \/ Val(s.files) = << >> \/ s.crop_mode THEN s
    ELSE LET idx == IMax(Val(s.current_idx) - 1, 0)
         IN  HandleFile([s EXCEPT !.current_idx = Some(idx)],
                        Val(s.files), idx, TRUE, outcome)

OpenFile(s, listing, idx, outcome) ==
    IF outcome = "cancel" THEN s ELSE HandleFile(s, listing, idx, FALSE, outcome)

DropEvent(s, listing, idx, outcome, discard) ==
    IF s.crop_mode /\ ~ConfirmDiscardCrop(s, discard) THEN s
    ELSE LET s1 == IF s.crop_mode THEN ExitCropMode(ClearCropPreview(s)) ELSE s
         IN  HandleFile(s1, listing, idx, FALSE, outcome)

\* ------------------------------------------------ window: resize, fullscreen
ResizeEvent(s, vp) == FitImage([s EXCEPT !.viewport = vp])

ToggleFullscreen(s) == [s EXCEPT !.fullscreen = ~s.fullscreen]

\* _on_escape without the return after each branch
OnEscapeFallsThrough(s, discard) ==
    LET s1 == IF s.crop_mode THEN CancelCrop(s, discard) ELSE s
        s2 == IF s1.fullscreen THEN ToggleFullscreen(s1) ELSE s1
    IN  IF s2.is_zoom_actual_size
        THEN [ResetZoom(s2) EXCEPT !.is_zoom_actual_size = FALSE]
        ELSE s2

OnEscape(s, discard) ==
    IF s.crop_mode THEN CancelCrop(s, discard)
    ELSE IF s.fullscreen THEN ToggleFullscreen(s)
    ELSE IF s.is_zoom_actual_size
    THEN [ResetZoom(s) EXCEPT !.is_zoom_actual_size = FALSE]
    ELSE s

\* a _fit_image deferred with QTimer.singleShot(0, ...) runs
FitImageTimer(s) == FitImage([s EXCEPT !.pending_fit = @ - 1])


\* ----------------------------------------------------------------- history
\* output: the file the last handler wrote, if any.
\* lastOp, lastArg: the handler that ran last and its outcome; prevOp: the one
\* before, when that was an undo.
\* pre: the orientation of the view transform before lastOp ran.
\* preIdx: current_idx before lastOp ran, when lastOp browsed.
\* atCommit: fields before the last commit_crop that had a selection, kept
\* while only rotations, flips and deferred fits ran after it and before
\* lastOp; trail: the kinds of those handlers.
\* atUndo: fields before the undo that took an entry, kept for the handler
\* after it.
\* wheel_count: wheel notches so far.
Committed(op, s) == op = "commit_crop" /\ ~IsNone(s.crop_item)
Undone(op, s) == op = "undo" /\ s.undo_stack # << >>

Kind(op) ==
    CASE op \in {"rotate_right", "rotate_left"} -> "rotate"
      [] op \in {"flip_horizontal", "flip_vertical"} -> "flip"
      [] op = "fit_image_timer" -> "fit"
      [] OTHER -> "other"

CommitMark(s) ==
    [ view_rotation |-> s.view_rotation, transform |-> s.transform,
      flip_h |-> s.flip_h, flip_v |-> s.flip_v,
      crop_rect |-> s.crop_rect, clip_rect |-> s.clip_rect,
      scene_rect |-> s.scene_rect, pixmap_item |-> s.pixmap_item ]

UndoMark(s) ==
    [ current_zoom |-> s.current_zoom, view_rotation |-> s.view_rotation,
      transform |-> s.transform, scene_rect |-> s.scene_rect,
      crop_rect |-> s.crop_rect, clip_rect |-> s.clip_rect,
      undo_stack |-> s.undo_stack, redo_stack |-> s.redo_stack,
      pixmap_item |-> s.pixmap_item ]

Hist(op, arg) ==
    LET fresh == lastOp = "commit_crop" /\ trail = {} /\ ~IsNone(atCommit)
        keep == ~IsNone(atCommit) /\ (fresh \/ Kind(lastOp) # "other")
    IN  /\ lastOp' = op
        /\ lastArg' = arg
        /\ prevOp' = IF lastOp = "undo" THEN lastOp ELSE ""
        /\ pre' = Orientation(transform)
        /\ preIdx' = IF op \in {"next_image", "prev_image"} THEN current_idx ELSE None
        /\ atCommit' = IF Committed(op, Self) THEN Some(CommitMark(Self))
                       ELSE IF keep THEN atCommit ELSE None
        /\ trail' = IF Committed(op, Self) \/ ~keep \/ fresh THEN {}
                    ELSE trail \cup {Kind(lastOp)}
        /\ atUndo' = IF Undone(op, Self) THEN Some(UndoMark(Self))
                     ELSE IF lastOp = "undo" THEN atUndo ELSE None
        /\ wheel_count' = IF op = "on_wheel_zoom" THEN wheel_count + 1 ELSE wheel_count

\* handler op, with outcome arg, takes the window to the state n and writes out
\* (a handler that changes no field and writes nothing leaves no trace)
StepOut(op, arg, n, out) ==
    /\ n.pending_fit <= MaxPending
    /\ Len(n.undo_stack) + Len(n.redo_stack) <= MaxUndo
    /\ Becomes(n)
    /\ IF n = Self /\ IsNone(out)
       THEN UNCHANGED histVars
       ELSE output' = out /\ Hist(op, arg)

Step(op, arg, n) == StepOut(op, arg, n, None)

\* -------------------------------------------------------------------- Init
InitState ==
    [ files |-> None, current_idx |-> None,
      current_zoom |-> ROne, user_zoomed |-> FALSE,
      view_rotation |-> 0, is_zoom_actual_size |-> FALSE,
      flip_h |-> FALSE, flip_v |-> FALSE,
      crop_mode |-> FALSE, crop_rect |-> None, crop_item |-> None,
      crop_overlay_items |-> << >>,
      undo_stack |-> << >>, redo_stack |-> << >>,
      pixmap_item |-> None, clip_rect |-> None, scene_rect |-> NullRect,
      transform |-> Identity, viewport |-> InitViewport,
      save_as_enabled |-> FALSE, zoom_slider |-> SliderInit,
      fullscreen |-> FALSE, page |-> 0, pending_fit |-> 0 ]

Init ==
    /\ files = InitState.files
    /\ current_idx = InitState.current_idx
    /\ current_zoom = InitState.current_zoom
    /\ user_zoomed = InitState.user_zoomed
    /\ view_rotation = InitState.view_rotation
    /\ is_zoom_actual_size = InitState.is_zoom_actual_size
    /\ flip_h = InitState.flip_h
    /\ flip_v = InitState.flip_v
    /\ crop_mode = InitState.crop_mode
    /\ crop_rect = InitState.crop_rect
    /\ crop_item = InitState.crop_item
    /\ crop_overlay_items = InitState.crop_overlay_items
    /\ undo_stack = InitState.undo_stack
    /\ redo_stack = InitState.redo_stack
    /\ pixmap_item = InitState.pixmap_item
    /\ clip_rect = InitState.clip_rect
    /\ scene_rect = InitState.scene_rect
    /\ transform = InitState.transform
    /\ viewport = InitState.viewport
    /\ save_as_enabled = InitState.save_as_enabled
    /\ zoom_slider = InitState.zoom_slider
    /\ fullscreen = InitState.fullscreen
    /\ page = InitState.page
    /\ pending_fit = InitState.pending_fit
    /\ output = None
    /\ lastOp = "init" /\ lastArg = "" /\ prevOp = ""
    /\ pre = Orientation(Identity)
    /\ preIdx = None
    /\ atCommit = None
    /\ trail = {}
    /\ atUndo = None
    /\ wheel_count = 0

\* ----------------------------------------------------------------- actions
\* Each action is one event the window handles; its guard is the condition
\* under which the control that raises the event can be used.
DoOpenFile ==
    /\ ~crop_mode
    /\ \E i \in 0..(MaxFiles - 1) :
       \E outcome \in {"cancel", "not_image", "undecodable", "ok"} :
          Step("open_file", outcome, OpenFile(Self, Directory(MaxFiles), i, outcome))

\* Open, in a directory of up to MaxFolder pictures
DoOpenInFolder ==
    /\ ~crop_mode
    /\ \E n \in 1..MaxFolder : \E i \in 0..(n - 1) :
       \E outcome \in {"cancel", "not_image", "undecodable", "ok"} :
          Step("open_file", outcome, OpenFile(Self, Directory(n), i, outcome))

\* Open, in a directory that holds one picture
DoOpenOnly ==
    /\ ~crop_mode
    /\ \E outcome \in {"cancel", "not_image", "undecodable", "ok"} :
          Step("open_file", outcome, OpenFile(Self, Directory(1), 0, outcome))

DoDropEvent ==
    \E i \in 0..(MaxFiles - 1) :
    \E outcome \in {"missing", "not_image", "undecodable", "ok"} :
    \E discard \in BOOLEAN :
       Step("drop_event", outcome,
            DropEvent(Self, Directory(MaxFiles), i, outcome, discard))

DoNextImage ==
    \E outcome \in {"missing", "undecodable", "ok"} :
       Step("next_image", outcome, NextImage(Self, outcome))

DoPrevImage ==
    \E outcome \in {"missing", "undecodable", "ok"} :
       Step("prev_image", outcome, PrevImage(Self, outcome))

DoEnterCropMode ==
    /\ page = 1 /\ ~crop_mode
    /\ Step("enter_crop_mode", "", EnterCropMode(Self))

\* ... for the first crop since the window opened
DoEnterFirstCropMode ==
    /\ undo_stack = << >> /\ redo_stack = << >>
    /\ DoEnterCropMode

DoMouseDrag ==
    /\ page = 1 /\ crop_mode
    /\ \E p \in DragPoints : \E q \in DragPoints :
          /\ RectIsValid(NormalizedRect(p, q))
          /\ Step("mouse_drag", "", MouseDrag(Self, p, q))

DoCancelCrop ==
    /\ page = 1 /\ crop_mode
    /\ \E discard \in BOOLEAN :
          Step("cancel_crop", IF discard THEN "discard" ELSE "keep",
               CancelCrop(Self, discard))

\* the Done button, or Enter, in crop mode
DoCommitCrop ==
    /\ page = 1 /\ crop_mode
    /\ Step("commit_crop", "", CommitCrop(Self))

\* Enter outside crop mode
DoOnCropEnter ==
    /\ ~crop_mode
    /\ Step("on_crop_enter", "", OnCropEnter(Self))

DoUndo == Step("undo", "", Undo(Self))

DoRedo == Step("redo", "", Redo(Self))

DoConvertImage ==
    /\ page = 1 /\ ~crop_mode
    /\ \E outcome \in {"cancel", "fail", "ok"} :
          StepOut("convert_image", outcome, ConvertImage(Self, outcome),
                  ConvertedFile(Self, outcome))

DoSaveAsView ==
    /\ page = 1 /\ save_as_enabled
    /\ \E outcome \in {"cancel", "fail", "ok"} :
          StepOut("save_as_view", outcome, SaveAsView(Self, outcome),
                  SavedFile(Self, outcome))

DoRotateRight == Step("rotate_right", "", RotateAndFlip(Self, 90))

DoRotateLeft == Step("rotate_left", "", RotateAndFlip(Self, -90))

DoFlipHorizontal == Step("flip_horizontal", "", FlipHorizontal(Self))

DoFlipVertical == Step("flip_vertical", "", FlipVertical(Self))

DoWheelZoom ==
    /\ page = 1
    /\ wheel_count < MaxWheel
    /\ \E dir \in {"in", "out"} :
          Step("on_wheel_zoom", dir,
               OnWheelZoom(Self, IF dir = "in" THEN WheelIn ELSE WheelOut))

DoSliderZoom ==
    /\ page = 1
    /\ \E value \in SliderValues :
          /\ value # zoom_slider
          /\ Step("on_slider_zoom", "", OnSliderZoom(Self, value))

\* a double click on the view
DoResetZoom ==
    /\ page = 1
    /\ Step("reset_zoom", "", ResetZoom(Self))

DoZoomActualSize == Step("zoom_actual_size", "", ZoomActualSize(Self))

DoOnEscape ==
    \E discard \in BOOLEAN :
       Step("on_escape", IF discard THEN "discard" ELSE "keep", OnEscape(Self, discard))

DoToggleFullscreen == Step("toggle_fullscreen", "", ToggleFullscreen(Self))

DoResizeEvent ==
    \E vp \in Viewports :
       /\ vp # viewport
       /\ Step("resize_event", "", ResizeEvent(Self, vp))

DoFitImageTimer ==
    /\ pending_fit > 0
    /\ Step("fit_image_timer", "", FitImageTimer(Self))

\* ---------------------------------------------------------- specifications
\* The window's controls are explored in groups, each with the controls that
\* load a picture and the deferred fit:
\*   Spec        crop mode, undo and redo, any number of crops;
\*   SpecStacks  crops, undo and redo of one picture before its deferred fit
\*               runs;
\*   SpecRotate  rotation around one crop and its undo;
\*   SpecOrient  rotation, horizontal flip and Save As around one crop and
\*               its undo;
\*   SpecView    rotation, both flips, Save As and zoom with no crop;
\*   SpecZoom    the zoom and window controls around one crop and its undo;
\*   SpecConvert Convert Original after a crop, a rotation and a flip;
\*   SpecEscape  Escape in crop mode, in fullscreen and at 1:1 zoom;
\*   SpecFiles   browsing directories of up to MaxFolder pictures, with
\*               rotation, flip, 1:1 zoom and Save As;
\*   SpecLoad    loading a picture after a crop, a rotation and 1:1 zoom.
Next ==
    \/ DoOpenFile
    \/ DoDropEvent
    \/ DoEnterCropMode
    \/ DoMouseDrag
    \/ DoCancelCrop
    \/ DoCommitCrop
    \/ DoOnCropEnter
    \/ DoUndo
    \/ DoRedo
    \/ DoFitImageTimer

Spec == Init /\ [][Next]_vars

NextStacks ==
    \/ DoOpenOnly
    \/ DoEnterCropMode
    \/ DoMouseDrag
    \/ DoCommitCrop
    \/ DoUndo
    \/ DoRedo

SpecStacks == Init /\ [][NextStacks]_vars

NextRotate ==
    \/ DoOpenFile
    \/ DoEnterFirstCropMode
    \/ DoMouseDrag
    \/ DoCommitCrop
    \/ DoUndo
    \/ DoRotateRight
    \/ DoRotateLeft
    \/ DoFitImageTimer

SpecRotate == Init /\ [][NextRotate]_vars

NextOrient ==
    \/ DoOpenFile
    \/ DoEnterFirstCropMode
    \/ DoMouseDrag
    \/ DoCommitCrop
    \/ DoUndo
    \/ DoRotateRight
    \/ DoRotateLeft
    \/ DoFlipHorizontal
    \/ DoSaveAsView
    \/ DoFitImageTimer

SpecOrient == Init /\ [][NextOrient]_vars

NextView ==
    \/ DoOpenFile
    \/ DoRotateRight
    \/ DoRotateLeft
    \/ DoFlipHorizontal
    \/ DoFlipVertical
    \/ DoSaveAsView
    \/ DoSliderZoom
    \/ DoZoomActualSize
    \/ DoResizeEvent
    \/ DoFitImageTimer

SpecView == Init /\ [][NextView]_vars

NextZoom ==
    \/ DoOpenFile
    \/ DoEnterFirstCropMode
    \/ DoMouseDrag
    \/ DoCommitCrop
    \/ DoUndo
    \/ DoWheelZoom
    \/ DoSliderZoom
    \/ DoResetZoom
    \/ DoZoomActualSize
    \/ DoOnEscape
    \/ DoToggleFullscreen
    \/ DoResizeEvent
    \/ DoFitImageTimer

SpecZoom == Init /\ [][NextZoom]_vars

NextConvert ==
    \/ DoOpenFile
    \/ DoConvertImage
    \/ DoEnterFirstCropMode
    \/ DoMouseDrag
    \/ DoCommitCrop
    \/ DoRotateRight
    \/ DoFlipHorizontal
    \/ DoFitImageTimer

SpecConvert == Init /\ [][NextConvert]_vars

NextEscape ==
    \/ DoOpenFile
    \/ DoEnterFirstCropMode
    \/ DoMouseDrag
    \/ DoCommitCrop
    \/ DoOnEscape
    \/ DoToggleFullscreen
    \/ DoZoomActualSize
    \/ DoFitImageTimer

SpecEscape == Init /\ [][NextEscape]_vars

NextFiles ==
    \/ DoOpenInFolder
    \/ DoDropEvent
    \/ DoNextImage
    \/ DoPrevImage
    \/ DoRotateRight
    \/ DoFlipHorizontal
    \/ DoZoomActualSize
    \/ DoSaveAsView
    \/ DoFitImageTimer

SpecFiles == Init /\ [][NextFiles]_vars

NextLoad ==
    \/ DoOpenFile
    \/ DoDropEvent
    \/ DoNextImage
    \/ DoPrevImage
    \/ DoEnterFirstCropMode
    \/ DoMouseDrag
    \/ DoCommitCrop
    \/ DoRotateRight
    \/ DoZoomActualSize
    \/ DoFitImageTimer

SpecLoad == Init /\ [][NextLoad]_vars

\* -------------------------------------------------------------------- claims
\* a productive commit_crop, then handlers of the kinds in trail, then lastOp
AfterCommit == ~IsNone(atCommit)
\* the rectangle the picture occupied before that commit
OccupiedAtCommit ==
    IF Truthy(Val(atCommit).clip_rect) THEN Val(atCommit).clip_rect[1]
    ELSE Val(atCommit).pixmap_item[1]
Contains(outer, inner) ==
    /\ RectLeft(outer) <= RectLeft(inner) /\ RectRight(inner) <= RectRight(outer)
    /\ RectTop(outer) <= RectTop(inner) /\ RectBottom(inner) <= RectBottom(outer)
\* the picture shown before lastOp ran
DisplayedBefore == Displayed(<<RInt(pre[1]), RInt(pre[2]), RInt(pre[3]), RInt(pre[4])>>)
\* a picture turned or mirrored on the screen (y grows downwards)
Clockwise(img) == [q \in Corners |-> img[<<q[2], -q[1]>>]]
CounterClockwise(img) == [q \in Corners |-> img[<<-q[2], q[1]>>]]
MirrorLeftRight(img) == [q \in Corners |-> img[<<-q[1], q[2]>>]]
MirrorTopBottom(img) == [q \in Corners |-> img[<<q[1], -q[2]>>]]

\* C1: commit_crop() followed immediately by undo() leaves crop_rect, the
\* pixmap item's clip rectangle and the scene rectangle as they were just
\* before the commit_crop().
C1_UndoRestoresCrop ==
    (lastOp = "undo" /\ AfterCommit /\ trail = {}) =>
        /\ crop_rect = Val(atCommit).crop_rect
        /\ clip_rect = Val(atCommit).clip_rect
        /\ scene_rect = Val(atCommit).scene_rect

\* C2: after commit_crop(), any number of rotations by +90 or -90 and then
\* undo(), view_rotation and the rotation part of the view transform are what
\* they were when commit_crop() was called.
C2_RotationLostOnUndo ==
    (lastOp = "undo" /\ AfterCommit /\ trail \subseteq {"rotate"}) =>
        /\ view_rotation = Val(atCommit).view_rotation
        /\ Orientation(transform) = Orientation(Val(atCommit).transform)

\* C2 witness: an undo right after rotations that followed a commit, which
\* changed view_rotation
C2_Witness ==
    /\ lastOp = "undo" /\ AfterCommit /\ trail = {"rotate"}
    /\ Val(atUndo).view_rotation # view_rotation

\* C3: after commit_crop(), flips and then undo(), the flags flip_h and
\* flip_v are what they were when commit_crop() was called.
C3_FlipLostOnUndo ==
    (lastOp = "undo" /\ AfterCommit /\ trail \subseteq {"flip"}) =>
        /\ flip_h = Val(atCommit).flip_h
        /\ flip_v = Val(atCommit).flip_v

\* C4: undo() with a non-empty undo stack followed immediately by redo()
\* restores current_zoom, view_rotation, the view transform, the scene
\* rectangle, crop_rect and the clip rectangle, and both stacks.
C4_UndoRedoRoundTrip ==
    (lastOp = "redo" /\ prevOp = "undo" /\ ~IsNone(atUndo)) =>
        /\ current_zoom = Val(atUndo).current_zoom
        /\ view_rotation = Val(atUndo).view_rotation
        /\ transform = Val(atUndo).transform
        /\ scene_rect = Val(atUndo).scene_rect
        /\ crop_rect = Val(atUndo).crop_rect
        /\ clip_rect = Val(atUndo).clip_rect
        /\ undo_stack = Val(atUndo).undo_stack
        /\ redo_stack = Val(atUndo).redo_stack

\* C5: in every reachable state the picture the view transform shows has the
\* orientation save_as_view() gives the file: clockwise by view_rotation,
\* then mirrored left-right if flip_h, then top-bottom if flip_v.
C5_SavedIsDisplayed == Displayed(transform) = SavedPicture(Self)

\* C6: Rotate Right turns the displayed picture 90 degrees clockwise on the
\* screen, and Rotate Left 90 degrees counter-clockwise, for every flip state
\* and every view_rotation.
C6_RotateTurnsOnScreen ==
    /\ lastOp = "rotate_right" => Displayed(transform) = Clockwise(DisplayedBefore)
    /\ lastOp = "rotate_left" => Displayed(transform) = CounterClockwise(DisplayedBefore)

\* C7: Flip Horizontal mirrors the displayed picture left-right on the
\* screen, and Flip Vertical top-bottom, for every view_rotation and flip
\* state (so that the same flip twice returns the displayed orientation).
C7_FlipMirrorsOnScreen ==
    /\ lastOp = "flip_horizontal" => Displayed(transform) = MirrorLeftRight(DisplayedBefore)
    /\ lastOp = "flip_vertical" => Displayed(transform) = MirrorTopBottom(DisplayedBefore)

C9_CropClamped ==
    (lastOp = "commit_crop" /\ AfterCommit /\ trail = {}) =>
        /\ ~IsNone(crop_rect)
        /\ Contains(OccupiedAtCommit, Val(crop_rect))
        /\ clip_rect = crop_rect
        /\ scene_rect = Val(crop_rect)

\* C10: in every reachable state with is_zoom_actual_size set, the scale of
\* the view transform and current_zoom are 1.
C10_ActualSizeIsFullScale ==
    is_zoom_actual_size => (TransformScale(transform) = ROne /\ current_zoom = ROne)

\* C11: whenever files is set it is non-empty and current_idx is one of its
\* indices; next_image at the last index and prev_image at index 0 leave
\* current_idx as it was.
C11_BrowsingStaysInList ==
    /\ ~IsNone(files) =>
          /\ Len(Val(files)) > 0
          /\ ~IsNone(current_idx)
          /\ Val(current_idx) \in 0..(Len(Val(files)) - 1)
    /\ (lastOp = "next_image" /\ preIdx = Some(Len(Val(files)) - 1)) =>
          current_idx = preIdx
    /\ (lastOp = "prev_image" /\ preIdx = Some(0)) => current_idx = preIdx

\* C11 witness: next_image ran at the last index of a directory of several
\* pictures
C11_Witness ==
    /\ lastOp = "next_image" /\ ~IsNone(files) /\ Len(Val(files)) > 1
    /\ preIdx = Some(Len(Val(files)) - 1)

\* C12: right after handle_file() has loaded a picture (by open, drop, next or
\* previous), view_rotation is 0, flip_h, flip_v, user_zoomed and
\* is_zoom_actual_size are false, crop_rect is None, the pixmap item has no
\* clip rectangle, the scene rectangle is the full picture and Save As is
\* disabled.
C12_LoadStartsClean ==
    (lastOp \in {"open_file", "drop_event", "next_image", "prev_image"}
       /\ lastArg = "ok") =>
        /\ view_rotation = 0 /\ ~flip_h /\ ~flip_v
        /\ IsNone(crop_rect)
        /\ ~user_zoomed /\ ~is_zoom_actual_size
        /\ IsNone(clip_rect)
        /\ scene_rect = Val(pixmap_item)
        /\ ~save_as_enabled

\* C12 witness: a picture loaded by next_image right after a crop and
\* rotations that left the view turned
C12_Witness ==
    /\ lastOp = "next_image" /\ lastArg = "ok"
    /\ AfterCommit /\ "rotate" \in trail
    /\ pre # Orientation(Identity)

\* C13: Escape does one thing, by priority: in crop mode it only cancels the
\* crop (fullscreen and zoom state unchanged); otherwise in fullscreen it
\* only leaves fullscreen; otherwise at actual size it only returns to fit
\* zoom; otherwise it changes nothing.
C13_EscapePriority ==
    [][lastOp' = "on_escape" =>
          IF crop_mode
          THEN Self' = [Self EXCEPT !.crop_mode = FALSE, !.crop_item = None,
                                    !.crop_overlay_items = << >>]
          ELSE IF fullscreen
          THEN Self' = [Self EXCEPT !.fullscreen = FALSE]
          ELSE IF is_zoom_actual_size
          THEN Self' = [Self EXCEPT !.is_zoom_actual_size = FALSE,
                                    !.user_zoomed = FALSE,
                                    !.pending_fit = @ + 1]
          ELSE FALSE]_vars

\* C13 witness: Escape has cancelled a crop and left the window in
\* fullscreen and at actual size
C13_Witness ==
    /\ lastOp = "on_escape" /\ lastArg = "discard"
    /\ ~crop_mode /\ fullscreen /\ is_zoom_actual_size

\* the view state as _capture_view_state records it
CapturedNow ==
    [ zoom |-> current_zoom, rotation |-> view_rotation,
      transform |-> transform, scene_rect |-> scene_rect ]
Last(seq) == seq[Len(seq)]
Front(seq) == SubSeq(seq, 1, Len(seq) - 1)
\* C14: commit_crop() with a selection pushes one entry, the view state
\* before the crop, onto the undo stack, empties the redo stack, removes the
\* selection and the overlay items and leaves crop_mode false.
C14_CommitPushesOneState ==
    [][(lastOp' = "commit_crop" /\ ~IsNone(crop_item)) =>
          /\ undo_stack' = Append(undo_stack, CapturedNow)
          /\ redo_stack' = << >>
          /\ IsNone(crop_item') /\ crop_overlay_items' = << >>
          /\ ~crop_mode']_vars

\* C14 witness: a second crop has been committed, with two entries on the
\* undo stack
C14_Witness ==
    /\ lastOp = "commit_crop" /\ AfterCommit /\ trail = {}
    /\ Len(undo_stack) = 2 /\ redo_stack = << >>

\* C15: commit_crop() without a selection changes nothing but crop_mode.
C15_CommitWithoutSelection ==
    [][(lastOp' = "commit_crop" /\ IsNone(crop_item)) =>
          Self' = [Self EXCEPT !.crop_mode = FALSE]]_vars

\* C15 witness: commit_crop() without a selection has left crop mode, with a
\* crop in place, an entry on the undo stack and Save As enabled or not
C15_Witness ==
    /\ lastOp = "commit_crop" /\ IsNone(atCommit) /\ ~crop_mode
    /\ undo_stack # << >> /\ ~IsNone(crop_rect)

\* C16: undo() moves one entry: it saves the current state on the redo stack
\* and restores the last entry of the undo stack; redo() does the reverse;
\* with nothing to take neither changes any state.
C16_UndoRedoMoveOneEntry ==
    [][/\ lastOp' = "undo" =>
             /\ undo_stack # << >>
             /\ undo_stack' = Front(undo_stack)
             /\ redo_stack' = Append(redo_stack, CapturedNow)
             /\ CapturedNow' = Last(undo_stack)
             /\ Len(undo_stack') + Len(redo_stack') = Len(undo_stack) + Len(redo_stack)
       /\ lastOp' = "redo" =>
             /\ redo_stack # << >>
             /\ redo_stack' = Front(redo_stack)
             /\ undo_stack' = Append(undo_stack, CapturedNow)
             /\ CapturedNow' = Last(redo_stack)
             /\ Len(undo_stack') + Len(redo_stack') = Len(undo_stack) + Len(redo_stack)
      ]_vars

\* C16 witness: an undo has moved one of two entries
C16_Witness ==
    /\ lastOp = "undo" /\ Len(undo_stack) = 1 /\ Len(redo_stack) = 1

C18_ZoomMatchesView == current_zoom = TransformScale(transform)

====
